---------------------------- MODULE Spec2Model ----------------------------
(***************************************************************************)
(* A model of paperoni's Semantic Scholar scraper                          *)
(* (src/paperoni/sources/scrapers/semantic_scholar.py):                    *)
(*   - the query entry point (a generator function),                       *)
(*   - SemanticScholarQueryManager._list, the paginator (a generator),     *)
(*   - SemanticScholarQueryManager._evaluate, one request/response,        *)
(*   - the connection's inter-request delay,                               *)
(*   - _wrap_paper / _wrap_author, the normalizer.                         *)
(*                                                                         *)
(* Python text is modelled as a sequence of one-character strings, so that *)
(* str.lower and str.join are computed rather than assumed.  A JSON value  *)
(* that may be null is a record tagged with t ("null", "dict", "list").    *)
(* An optional integer (the cursor `next`) is <<>> for None and <<n>>.     *)
(***************************************************************************)
EXTENDS Integers, Sequences, FiniteSets, TLC

(***************************************************************************)
(* Bounds of the model.                                                    *)
(***************************************************************************)
\* largest `limit` option the caller passes
MaxLimit == 3
\* largest `block_size` option the caller passes
MaxBlock == 2
\* largest number of records in one server page
MaxPage == 2
\* largest `next` cursor the server answers
MaxNext == 3
\* the history counters (requests, records, pages) saturate at this value
CountCap == 4

(***************************************************************************)
(* Program constants.                                                      *)
(***************************************************************************)
\* delay = 5 * 60 / 100 seconds between two requests of one connection
Delay == 3
\* `block_size or 10000` in _list
BlockFallback == 10000
\* default block_size of _list, used by ss.author(author)
DefaultBlockSize == 100
\* default limit of _list, used by ss.author(author)
DefaultLimit == 10000

VARIABLES
    pc,            \* where the generator stands
    pulling,       \* TRUE while a next() of the caller is running
    author,        \* query's local `author`: the option's words, then the joined text
    title,         \* query's local `title`: the option's words, then the joined text
    q_block_size,  \* query's option block_size
    q_limit,       \* query's option limit
    block_size,    \* _list's parameter block_size
    limit,         \* _list's parameter limit
    page_limit,    \* _list's params["limit"], sent on every request
    next_offset,   \* _list's local next_offset: <<>> is None
    page,          \* entries of results["data"] the for loop has not reached yet
    req,           \* the last request sent: <<>> or <<[offset, limit]>>
    resp,          \* the last body _evaluate got: <<>> or <<response>>
    received,      \* records in the pages received in this invocation (saturating)
    nreq,          \* requests issued by this invocation (saturating)
    yielded,       \* records _list has yielded in this invocation (saturating)
    consumed,      \* pages whose for loop has ended in this invocation (saturating)
    inflight,      \* requests sent and not yet answered
    conn_last,     \* the connection's time since its last request: <<>> if none yet
    host_gap,      \* time since the host last saw a request, from any connection
    err,           \* the exception that ended the invocation
    rec,           \* the raw record given to a conversion run on its own
    out            \* the entity the caller was last handed

vars == <<pc, pulling, author, title, q_block_size, q_limit, block_size, limit,
          page_limit, next_offset, page, req, resp, received, nreq, yielded, consumed,
          inflight, conn_last, host_gap, err, rec, out>>

(***************************************************************************)
(* Small helpers.                                                          *)
(***************************************************************************)
Min(a, b) == IF a <= b THEN a ELSE b

Bump(n) == Min(n + 1, CountCap)

None == <<>>

Some(n) == <<n>>

JNull == [t |-> "null"]

JDict(items) == [t |-> "dict", items |-> items]

JList(items) == [t |-> "list", items |-> items]

NoErr == [kind |-> "none", msg |-> ""]

NoEntity == [t |-> "none"]

(***************************************************************************)
(* Text: str.lower and " ".join.                                           *)
(***************************************************************************)
UpperChars == <<"A", "B", "C", "D", "E", "F", "G", "H", "I", "J", "K", "L", "M",
                "N", "O", "P", "Q", "R", "S", "T", "U", "V", "W", "X", "Y", "Z">>

LowerChars == <<"a", "b", "c", "d", "e", "f", "g", "h", "i", "j", "k", "l", "m",
                "n", "o", "p", "q", "r", "s", "t", "u", "v", "w", "x", "y", "z">>

\* one character of str.lower
LowerChar(c) ==
    IF \E i \in DOMAIN UpperChars : UpperChars[i] = c
    THEN LowerChars[CHOOSE i \in DOMAIN UpperChars : UpperChars[i] = c]
    ELSE c

\* typ.lower()
Lower(s) == [i \in DOMAIN s |-> LowerChar(s[i])]

\* " ".join(words)
RECURSIVE Join(_)
Join(words) ==
    IF words = <<>> THEN <<>>
    ELSE IF Len(words) = 1 THEN words[1]
    ELSE words[1] \o <<" ">> \o Join(Tail(words))

\* Python truth of a str, a list or None-as-<<>>
Truthy(s) == s # <<>>

T_semantic_scholar == <<"s", "e", "m", "a", "n", "t", "i", "c", "_", "s", "c", "h", "o", "l", "a", "r">>

T_pubmedcentral == <<"p", "u", "b", "m", "e", "d", "c", "e", "n", "t", "r", "a", "l">>

T_pmc == <<"p", "m", "c">>

\* external_ids_mapping = {"pubmedcentral": "pmc"}
external_ids_mapping == [k \in {T_pubmedcentral} |-> T_pmc]

\* venue_type_mapping
venue_type_mapping ==
    [k \in {"JournalArticle", "Conference", "Book", "Review", "_"} |->
        CASE k = "JournalArticle" -> "journal"
          [] k = "Conference" -> "conference"
          [] k = "Book" -> "book"
          [] k = "Review" -> "review"
          [] OTHER -> "unknown"]

(***************************************************************************)
(* The normalizer.  A conversion returns [ok, value, error]: the entity,   *)
(* or the exception it raises.  The release's date (DatePrecision lives in *)
(* another file), abstract, topics and citation count are left out.        *)
(***************************************************************************)
Raised(kind, msg) == [ok |-> FALSE, value |-> NoEntity, error |-> [kind |-> kind, msg |-> msg]]

Returned(v) == [ok |-> TRUE, value |-> v, error |-> NoErr]

Link(type, link) == [type |-> type, link |-> link]

\* aliases=data.get("aliases", None) or []
AuthorAliases(data) ==
    IF "aliases" \in DOMAIN data /\ data.aliases.t = "list" THEN data.aliases.items ELSE <<>>

\* lnk = (aid := data["authorId"]) and Link(...);  links=[lnk] if lnk else []
AuthorLinks(data) ==
    IF data.authorId = "" THEN <<>> ELSE <<Link(T_semantic_scholar, data.authorId)>>

wrap_author(data) ==
    IF "authorId" \notin DOMAIN data THEN Raised("KeyError", "authorId")
    ELSE IF "name" \notin DOMAIN data THEN Raised("KeyError", "name")
    ELSE Returned([t |-> "Author",
                   name |-> data.name,
                   affiliations |-> <<>>,
                   aliases |-> AuthorAliases(data),
                   links |-> AuthorLinks(data),
                   roles |-> <<>>])

\* the key looked up as it came, not lower-cased
LinkTypeAsGiven(typ) ==
    IF typ \in DOMAIN external_ids_mapping THEN external_ids_mapping[typ] ELSE typ

\* external_ids_mapping.get(t := typ.lower(), t)
LinkType(typ) ==
    LET t == Lower(typ)
    IN  IF t \in DOMAIN external_ids_mapping THEN external_ids_mapping[t] ELSE t

\* links = [Link("semantic_scholar", paperId)] + one Link per externalIds item
PaperLinks(data) ==
    <<Link(T_semantic_scholar, data.paperId)>> \o
    [i \in DOMAIN data.externalIds.items |->
        Link(LinkType(data.externalIds.items[i][1]), data.externalIds.items[i][2])]

\* (pubt := data.get("publicationTypes", [])) and pubt[0] or "_"
VenueKey(data) ==
    LET pubt == IF "publicationTypes" \in DOMAIN data THEN data.publicationTypes ELSE JList(<<>>)
    IN  IF pubt.t = "list" /\ pubt.items # <<>> /\ pubt.items[1] # "" THEN pubt.items[1] ELSE "_"

\* the first author record whose conversion raises, 0 if none
FirstBadAuthor(authors) ==
    IF \E i \in DOMAIN authors : ~wrap_author(authors[i]).ok
    THEN CHOOSE i \in DOMAIN authors :
            /\ ~wrap_author(authors[i]).ok
            /\ \A j \in 1..(i - 1) : wrap_author(authors[j]).ok
    ELSE 0

wrap_paper(data) ==
    IF "paperId" \notin DOMAIN data THEN Raised("KeyError", "paperId")
    ELSE IF "externalIds" \notin DOMAIN data THEN Raised("KeyError", "externalIds")
    ELSE IF data.externalIds.t # "dict" THEN Raised("AttributeError", "items")
    ELSE IF "authors" \notin DOMAIN data THEN Raised("KeyError", "authors")
    ELSE IF FirstBadAuthor(data.authors) # 0
         THEN wrap_author(data.authors[FirstBadAuthor(data.authors)])
    ELSE IF VenueKey(data) \notin DOMAIN venue_type_mapping
         THEN Raised("KeyError", VenueKey(data))
    ELSE IF "title" \notin DOMAIN data THEN Raised("KeyError", "title")
    ELSE Returned([t |-> "Paper",
                   links |-> PaperLinks(data),
                   authors |-> [i \in DOMAIN data.authors |-> wrap_author(data.authors[i]).value],
                   title |-> data.title,
                   releases |-> <<[venue |-> [type |-> venue_type_mapping[VenueKey(data)],
                                              links |-> <<>>]]>>,
                   scrapers |-> <<"ssch">>])

(***************************************************************************)
(* Inputs: what the caller passes and what the server answers.             *)
(***************************************************************************)
\* values of the options author and title (nargs +): lists of words
TermInputs == {<<>>, <<<<>>>>, <<<<"x">>, <<"y">>>>}

\* the raw author records a page may hold (authorId "" stands for null)
AuthorRecords ==
    { [authorId |-> "7", name |-> "Ann", aliases |-> JList(<<"A. N.">>)],
      [authorId |-> "", name |-> "Bob", aliases |-> JNull],
      [authorId |-> "9", name |-> "Cy"],
      [authorId |-> "8"] }

K_PubMedCentral == <<"P", "u", "b", "M", "e", "d", "C", "e", "n", "t", "r", "a", "l">>

K_DOI == <<"D", "O", "I">>

K_ArXiv == <<"A", "r", "X", "i", "v">>

\* the raw paper records a page may hold
PaperRecords ==
    { [paperId |-> "p1", title |-> "T1", authors |-> <<>>,
       externalIds |-> JDict(<<<<K_PubMedCentral, "PMC7">>, <<K_DOI, "10.1/x">>>>),
       publicationTypes |-> JList(<<"JournalArticle">>)],
      [paperId |-> "p2", title |-> "T2", authors |-> <<>>,
       externalIds |-> JDict(<<<<K_ArXiv, "2001.1">>>>),
       publicationTypes |-> JNull],
      [paperId |-> "p3", title |-> "T3", authors |-> <<>>,
       externalIds |-> JDict(<<>>),
       publicationTypes |-> JList(<<"Dataset">>)],
      [paperId |-> "p4", authors |-> <<>>,
       externalIds |-> JDict(<<>>)] }

\* the bodies _evaluate may get: a transport failure, {"error": msg}, or a page of
\* n records with the cursor next
Responses ==
    {[kind |-> "transport", msg |-> "timeout", n |-> 0, next |-> None]}
    \cup {[kind |-> "error", msg |-> m, n |-> 0, next |-> None] :
            m \in {"rate limit exceeded", "not found"}}
    \cup {[kind |-> "page", msg |-> "", n |-> n, next |-> x] :
            n \in 0..MaxPage, x \in {None} \cup {Some(k) : k \in 0..MaxNext}}

\* the bodies of a server that honours the request: at most `limit` records, and
\* a cursor, when there is more, that is the offset plus the records returned
\* (its data set ends by MaxNext)
HonouringResponses ==
    {r \in Responses : r.kind # "page"}
    \cup UNION {{[kind |-> "page", msg |-> "", n |-> n, next |-> x] :
                    x \in {None} \cup
                          {Some(req[1].offset + k) :
                              k \in {j \in {n} \ {0} : req[1].offset + j <= MaxNext}}} :
                 n \in 0..Min(MaxPage, req[1].limit)}

(***************************************************************************)
(* The state after import: no invocation, no request ever sent.            *)
(***************************************************************************)
IdleFrame ==
    /\ block_size = 0
    /\ limit = 0
    /\ page_limit = 0
    /\ next_offset = None
    /\ page = 0
    /\ req = None
    /\ resp = None
    /\ received = 0
    /\ nreq = 0
    /\ yielded = 0
    /\ consumed = 0
    /\ inflight = 0
    /\ conn_last = None
    /\ host_gap = Delay
    /\ err = NoErr

Init ==
    /\ pc = "idle"
    /\ pulling = FALSE
    /\ author = <<>>
    /\ title = <<>>
    /\ q_block_size = 0
    /\ q_limit = 0
    /\ IdleFrame
    /\ rec = NoEntity
    /\ out = NoEntity

(***************************************************************************)
(* query(author, title, block_size, limit): calling the generator function *)
(* binds the options and runs nothing.                                     *)
(***************************************************************************)
query(a, t, bs, lim) ==
    /\ pc = "idle"
    /\ pc' = "created"
    /\ author' = a
    /\ title' = t
    /\ q_block_size' = bs
    /\ q_limit' = lim
    /\ UNCHANGED <<pulling, block_size, limit, page_limit, next_offset, page, req, resp,
                   received, nreq, yielded, consumed, inflight, conn_last, host_gap,
                   err, rec, out>>

\* the generator's frame, and the manager and connection it holds, are gone
FrameDropped ==
    /\ pc' = "idle"
    /\ pulling' = FALSE
    /\ author' = <<>>
    /\ title' = <<>>
    /\ q_block_size' = 0
    /\ q_limit' = 0
    /\ block_size' = 0
    /\ limit' = 0
    /\ page_limit' = 0
    /\ next_offset' = None
    /\ page' = 0
    /\ req' = None
    /\ resp' = None
    /\ received' = 0
    /\ nreq' = 0
    /\ yielded' = 0
    /\ consumed' = 0
    /\ conn_last' = None
    /\ err' = NoErr
    /\ out' = NoEntity
    /\ UNCHANGED <<inflight, host_gap, rec>>

\* the caller stops consuming a suspended generator and drops it
abandon ==
    /\ pc = "suspended"
    /\ FrameDropped

\* the caller drops a generator that has ended or raised
release ==
    /\ pc \in {"done", "raised"}
    /\ FrameDropped

\* the caller's next(): runs the generator's body from its start, or resumes it
\* in _list's for loop after the yield; the entity the caller held is its own
pull ==
    /\ pc \in {"created", "suspended"}
    /\ ~pulling
    /\ pulling' = TRUE
    /\ pc' = IF pc = "suspended" THEN "page" ELSE pc
    /\ out' = NoEntity
    /\ UNCHANGED <<author, title, q_block_size, q_limit, block_size, limit,
                   page_limit, next_offset, page, req, resp, received, nreq, yielded,
                   consumed, inflight, conn_last, host_gap, err, rec>>

\* _list's params["limit"] = min(block_size or 10000, limit)
PageLimit(bs, lim) == Min(IF bs = 0 THEN BlockFallback ELSE bs, lim)

\* the test dropped
BothGivenNever(a, t) == FALSE

\* if author and title
BothGiven(a, t) == Truthy(a) /\ Truthy(t)

\* the body of query up to the first request: lines 277-289
query_begin ==
    /\ pc = "created"
    /\ pulling
    /\ author' = Join(author)
    /\ title' = Join(title)
    /\ IF BothGiven(author', title')
       THEN /\ pc' = "raised"
            /\ pulling' = FALSE
            /\ err' = [kind |-> "QueryError", msg |-> "Cannot query both author and title"]
            /\ UNCHANGED <<block_size, limit, page_limit, next_offset, conn_last>>
       ELSE /\ conn_last' = None
            /\ err' = NoErr
            /\ IF Truthy(title')
               THEN /\ block_size' = q_block_size
                    /\ limit' = q_limit
                    /\ page_limit' = PageLimit(q_block_size, q_limit)
                    /\ next_offset' = Some(0)
                    /\ pc' = "loop"
                    /\ pulling' = TRUE
               ELSE IF Truthy(author')
               THEN /\ block_size' = DefaultBlockSize
                    /\ limit' = DefaultLimit
                    /\ page_limit' = PageLimit(DefaultBlockSize, DefaultLimit)
                    /\ next_offset' = Some(0)
                    /\ pc' = "loop"
                    /\ pulling' = TRUE
               ELSE /\ pc' = "done"
                    /\ pulling' = FALSE
                    /\ UNCHANGED <<block_size, limit, page_limit, next_offset>>
    /\ UNCHANGED <<q_block_size, q_limit, page, req, resp, received, nreq, yielded,
                   consumed, inflight, host_gap, rec, out>>

(***************************************************************************)
(* The connection.  HTTPSAcquirer is defined in another file; its get is   *)
(* modelled from the design: a request beyond the connection's first waits *)
(* until Delay has passed since the connection's previous one.  Elapsed    *)
(* times saturate at Delay: beyond it they make no difference.             *)
(***************************************************************************)
\* how long get blocks before it sends
ConnWait == IF conn_last = None THEN 0 ELSE Delay - conn_last[1]

\* time passes
tick ==
    /\ host_gap < Delay \/ (conn_last # None /\ conn_last[1] < Delay)
    /\ host_gap' = Min(host_gap + 1, Delay)
    /\ conn_last' = IF conn_last = None THEN None ELSE Some(Min(conn_last[1] + 1, Delay))
    /\ UNCHANGED <<pc, pulling, author, title, q_block_size, q_limit, block_size, limit,
                   page_limit, next_offset, page, req, resp, received, nreq, yielded,
                   consumed, inflight, err, rec, out>>

(***************************************************************************)
(* _list and _evaluate.                                                    *)
(***************************************************************************)
\* the next page asked for while entries of the current one remain
AtLoopHeadOrInPage == pc \in {"loop", "page"}

\* where _list may send a request: at the head of its while loop
AtLoopHead == pc = "loop"

\* while next_offset is not None and next_offset < limit
ListContinues == next_offset # None /\ next_offset[1] < limit

\* the error check dropped
HasErrorNever(r) == FALSE

\* if "error" in jdata
HasError(r) == r.kind = "error"

\* the loop's test holds: _evaluate sends GET ...?offset=next_offset&limit=page_limit
list_request ==
    /\ AtLoopHead
    /\ pulling
    /\ ListContinues
    /\ pc' = "inflight"
    /\ req' = Some([offset |-> next_offset[1], limit |-> page_limit])
    /\ nreq' = Bump(nreq)
    /\ inflight' = inflight + 1
    /\ conn_last' = Some(0)
    /\ host_gap' = 0
    /\ UNCHANGED <<pulling, author, title, q_block_size, q_limit, block_size, limit,
                   page_limit, next_offset, page, resp, received, yielded, consumed,
                   err, rec, out>>

\* the loop's test fails: the generator ends
list_exhausted ==
    /\ pc = "loop"
    /\ pulling
    /\ ~ListContinues
    /\ pc' = "done"
    /\ pulling' = FALSE
    /\ UNCHANGED <<author, title, q_block_size, q_limit, block_size, limit, page_limit,
                   next_offset, page, req, resp, received, nreq, yielded, consumed,
                   inflight, conn_last, host_gap, err, rec, out>>

\* conn.get returns or fails; json.loads; the error check; next_offset = results.get("next")
list_response(answers) ==
    /\ pc = "inflight"
    /\ inflight' = inflight - 1
    /\ \E r \in answers :
         /\ resp' = Some(r)
         /\ IF r.kind = "transport"
            THEN /\ pc' = "raised"
                 /\ pulling' = FALSE
                 /\ err' = [kind |-> "TransportError", msg |-> r.msg]
                 /\ UNCHANGED <<next_offset, page, received>>
            ELSE IF HasError(r)
            THEN /\ pc' = "raised"
                 /\ pulling' = FALSE
                 /\ err' = [kind |-> "QueryError", msg |-> r.msg]
                 /\ UNCHANGED <<next_offset, page, received>>
            ELSE /\ pc' = "page"
                 /\ next_offset' = r.next
                 /\ page' = r.n
                 /\ received' = Min(received + r.n, CountCap)
                 /\ UNCHANGED <<pulling, err>>
    /\ UNCHANGED <<author, title, q_block_size, q_limit, block_size, limit, page_limit,
                   req, nreq, yielded, consumed, conn_last, host_gap, rec, out>>

\* the for loop over results["data"] has no entry left: back to the while test
list_page_end ==
    /\ pc = "page"
    /\ pulling
    /\ page = 0
    /\ pc' = "loop"
    /\ consumed' = Bump(consumed)
    /\ UNCHANGED <<pulling, author, title, q_block_size, q_limit, block_size, limit,
                   page_limit, next_offset, page, req, resp, received, nreq, yielded,
                   inflight, conn_last, host_gap, err, rec, out>>

\* search: _list yields an entry, _wrap_paper converts it, query yields the paper
search_entry ==
    /\ pc = "page"
    /\ pulling
    /\ page > 0
    /\ Truthy(title)
    /\ page' = page - 1
    /\ yielded' = Bump(yielded)
    /\ \E data \in PaperRecords :
         /\ out' = wrap_paper(data).value
         /\ err' = wrap_paper(data).error
         /\ pc' = IF wrap_paper(data).ok THEN "suspended" ELSE "raised"
    /\ pulling' = FALSE
    /\ UNCHANGED <<author, title, q_block_size, q_limit, block_size, limit, page_limit,
                   next_offset, req, resp, received, nreq, consumed, inflight, conn_last,
                   host_gap, rec>>

\* author: _list yields an entry, _wrap_author converts it, query prints the author
\* and its for loop asks for the next one
author_entry ==
    /\ pc = "page"
    /\ pulling
    /\ page > 0
    /\ ~Truthy(title)
    /\ page' = page - 1
    /\ yielded' = Bump(yielded)
    /\ \E data \in AuthorRecords :
         /\ err' = wrap_author(data).error
         /\ pc' = IF wrap_author(data).ok THEN "page" ELSE "raised"
         /\ pulling' = wrap_author(data).ok
    /\ UNCHANGED <<author, title, q_block_size, q_limit, block_size, limit, page_limit,
                   next_offset, req, resp, received, nreq, consumed, inflight, conn_last,
                   host_gap, rec, out>>

Next ==
    \/ \E a \in TermInputs, t \in TermInputs, bs \in 0..MaxBlock, lim \in 0..MaxLimit :
          query(a, t, bs, lim)
    \/ abandon
    \/ release
    \/ pull
    \/ query_begin
    \/ tick
    \/ list_request
    \/ list_exhausted
    \/ list_response(Responses)
    \/ list_page_end
    \/ search_entry
    \/ author_entry

Spec == Init /\ [][Next]_vars

\* the same client in front of a server that honours every request
HonouredNext ==
    \/ \E a \in TermInputs, t \in TermInputs, bs \in 0..MaxBlock, lim \in 0..MaxLimit :
          query(a, t, bs, lim)
    \/ abandon
    \/ release
    \/ pull
    \/ query_begin
    \/ tick
    \/ list_request
    \/ list_exhausted
    \/ list_response(HonouringResponses)
    \/ list_page_end
    \/ search_entry
    \/ author_entry

HonouredSpec == Init /\ [][HonouredNext]_vars

(***************************************************************************)
(* The caller that keeps pulling: it never drops a suspended generator,    *)
(* the interpreter runs the generator while a next() is pending, and       *)
(* conn.get returns or fails.  The server is under no obligation.          *)
(***************************************************************************)
GeneratorStep ==
    \/ query_begin
    \/ list_request
    \/ list_exhausted
    \/ list_page_end
    \/ search_entry
    \/ author_entry

PullingNext ==
    \/ \E a \in TermInputs, t \in TermInputs, bs \in 0..MaxBlock, lim \in 0..MaxLimit :
          query(a, t, bs, lim)
    \/ release
    \/ pull
    \/ tick
    \/ list_response(Responses)
    \/ GeneratorStep

FairSpec ==
    /\ Init
    /\ [][PullingNext]_vars
    /\ WF_vars(pull)
    /\ WF_vars(list_response(Responses))
    /\ WF_vars(GeneratorStep)

(***************************************************************************)
(* The normalizer on its own: one raw record in, one entity or one         *)
(* exception out.                                                          *)
(***************************************************************************)
\* most entries of a record's externalIds
MaxIds == 2

IdKeys == {K_PubMedCentral, T_pubmedcentral, K_DOI, K_ArXiv, T_pmc}

IdRefs == {"r1", "r2"}

\* a JSON object's keys are distinct
ExternalIdInputs ==
    {JNull} \cup
    {JDict(items) : items \in
        {s \in UNION {[1..n -> IdKeys \X IdRefs] : n \in 0..MaxIds} :
            \A i, j \in DOMAIN s : i # j => s[i][1] # s[j][1]}}

PublicationTypeInputs ==
    {JNull} \cup
    {JList(l) : l \in {<<>>, <<"JournalArticle">>, <<"Conference">>, <<"Book">>,
                       <<"Review">>, <<"Dataset">>, <<"">>, <<"_">>,
                       <<"Review", "Dataset">>, <<"Dataset", "Book">>}}

AuthorListInputs == {<<>>} \cup {<<a>> : a \in AuthorRecords}

\* raw paper records: publicationTypes and title may be absent
NormPaperInputs ==
    {[paperId |-> "p1", externalIds |-> e, authors |-> a] @@ pt @@ ti :
        e \in ExternalIdInputs,
        a \in AuthorListInputs,
        pt \in {<<>>} \cup {("publicationTypes" :> v) : v \in PublicationTypeInputs},
        ti \in {<<>>, ("title" :> "T")}}

NormInit ==
    /\ pc = "idle"
    /\ pulling = FALSE
    /\ author = <<>>
    /\ title = <<>>
    /\ q_block_size = 0
    /\ q_limit = 0
    /\ IdleFrame
    /\ rec \in {[kind |-> "paper", data |-> d] : d \in NormPaperInputs}
               \cup {[kind |-> "author", data |-> d] : d \in AuthorRecords}
    /\ out = NoEntity

normalize_paper ==
    /\ pc = "idle"
    /\ rec.kind = "paper"
    /\ pc' = IF wrap_paper(rec.data).ok THEN "done" ELSE "raised"
    /\ out' = wrap_paper(rec.data).value
    /\ err' = wrap_paper(rec.data).error
    /\ UNCHANGED <<pulling, author, title, q_block_size, q_limit, block_size, limit,
                   page_limit, next_offset, page, req, resp, received, nreq, yielded,
                   consumed, inflight, conn_last, host_gap, rec>>

normalize_author ==
    /\ pc = "idle"
    /\ rec.kind = "author"
    /\ pc' = IF wrap_author(rec.data).ok THEN "done" ELSE "raised"
    /\ out' = wrap_author(rec.data).value
    /\ err' = wrap_author(rec.data).error
    /\ UNCHANGED <<pulling, author, title, q_block_size, q_limit, block_size, limit,
                   page_limit, next_offset, page, req, resp, received, nreq, yielded,
                   consumed, inflight, conn_last, host_gap, rec>>

NormNext == normalize_paper \/ normalize_author

NormSpec == NormInit /\ [][NormNext]_vars

(***************************************************************************)
(* The claims.                                                             *)
(***************************************************************************)
\* a request leaves in this step
Issued == inflight' = inflight + 1

\* C1: with block_size >= 1, one iteration of the paginator yields at most
\* `limit` records in total across all pages.
C1_YieldsAtMostLimit == block_size >= 1 => yielded <= limit

\* C2: the first request carries offset 0, every later request carries the `next`
\* of the response before it, and no request leaves after a response without
\* `next` nor once the records yielded have reached `limit`.
C2_RequestsFollowCursor ==
    [][Issued =>
        /\ nreq = 0 => req'[1].offset = 0
        /\ nreq > 0 => /\ resp # None
                       /\ resp[1].kind = "page"
                       /\ resp[1].next # None
                       /\ req'[1].offset = resp[1].next[1]
        /\ yielded < limit]_vars

\* C3: when the last response carries an `error` field, the iteration has ended
\* with a QueryError carrying that message, no request is pending or can leave,
\* none of that response's records is yielded, and every record of the pages
\* before it has been yielded.
C3_ErrorEndsIteration ==
    (resp # None /\ resp[1].kind = "error") =>
        /\ pc = "raised"
        /\ err = [kind |-> "QueryError", msg |-> resp[1].msg]
        /\ ~pulling
        /\ inflight = 0
        /\ page = 0
        /\ yielded = received
        /\ Bump(consumed) = nreq

\* C3's case: the second or a later request of a query is answered with an error
\* after records of an earlier page were delivered
C3_Witness ==
    /\ pc = "raised"
    /\ resp # None
    /\ resp[1].kind = "error"
    /\ resp[1].msg = "rate limit exceeded"
    /\ nreq >= 2
    /\ yielded >= 1

\* the joined terms of the current invocation
AuthorTerm == IF pc = "created" THEN Join(author) ELSE author

TitleTerm == IF pc = "created" THEN Join(title) ELSE title

\* C4: an invocation with a non-empty author term and a non-empty title term
\* raises the usage error and never issues a request, whatever block_size and
\* limit are.
C4_UsageErrorBeforeNetwork ==
    (pc # "idle" /\ AuthorTerm # <<>> /\ TitleTerm # <<>>) =>
        /\ pc \in {"created", "raised"}
        /\ pc = "raised" =>
              err = [kind |-> "QueryError", msg |-> "Cannot query both author and title"]
        /\ nreq = 0
        /\ inflight = 0
        /\ req = None
        /\ resp = None

\* C4's case: such an invocation has run and has raised
C4_Witness ==
    /\ pc = "raised"
    /\ author # <<>>
    /\ title # <<>>
    /\ q_limit > 0
    /\ err.kind = "QueryError"

\* C5: between two successive requests to the host at least Delay passes, over
\* any sequence of query operations, and no two requests are in flight at once.
C5_RequestsSpacedByDelay ==
    /\ [][Issued => host_gap + ConnWait >= Delay]_vars
    /\ [](inflight <= 1)

\* C6: whatever the server's cursor does, a caller that keeps pulling reaches
\* the end of the sequence or an error.
C6_IterationEnds == (pc = "created") ~> (pc \in {"done", "raised"})

\* C7: a request leaves only while the caller is pulling and after every record
\* of the pages received has been yielded, and the requests issued are at most
\* one more than the pages fully consumed.
C7_Lazy ==
    /\ [][Issued => pulling /\ page = 0 /\ yielded = received]_vars
    /\ [](nreq <= consumed + 1)

\* C7's case: the request for a second page is out, after the records of the
\* first were delivered
C7_Witness ==
    /\ pc = "inflight"
    /\ nreq = 2
    /\ consumed = 1
    /\ yielded = 2

\* the classification table's upstream names
ClassifiedTypes == {"JournalArticle", "Conference", "Book", "Review"}

\* publicationTypes is absent, null, empty, or its first entry is not in the table
Unclassified(data) ==
    \/ "publicationTypes" \notin DOMAIN data
    \/ data.publicationTypes.t = "null"
    \/ data.publicationTypes.items = <<>>
    \/ data.publicationTypes.items[1] \notin ClassifiedTypes

\* C8: a record whose publicationTypes is absent, null, empty or starts with a
\* type outside the table never makes the conversion raise for its venue, and the
\* paper produced has venue type unknown.
C8_UnclassifiedIsUnknown ==
    (pc # "idle" /\ rec.kind = "paper" /\ Unclassified(rec.data)) =>
        /\ ~(err.kind = "KeyError" /\ err.msg \notin {"paperId", "externalIds", "authors",
                                                      "authorId", "name", "title"})
        /\ pc = "done" => out.releases[1].venue.type = "unknown"

\* two characters that differ at most in case
SameLetter(c, d) ==
    \/ c = d
    \/ \E k \in DOMAIN UpperChars : {c, d} = {UpperChars[k], LowerChars[k]}

\* text a equals text b up to case
SameUpToCase(a, b) == Len(a) = Len(b) /\ \A i \in DOMAIN a : SameLetter(a[i], b[i])

\* text l is text s in lower case
IsLowerCaseOf(l, s) ==
    /\ SameUpToCase(l, s)
    /\ \A i \in DOMAIN l : \A k \in DOMAIN UpperChars : l[i] # UpperChars[k]

\* C9: the links of a produced paper are the semantic_scholar link of paperId,
\* then one link per externalIds entry in upstream order; a key that is
\* pubmedcentral up to case gives type pmc, any other key its lower-cased self.
C9_Links ==
    (pc = "done" /\ rec.kind = "paper") =>
        LET ids == rec.data.externalIds.items
        IN  /\ Len(out.links) = 1 + Len(ids)
            /\ out.links[1] = [type |-> T_semantic_scholar, link |-> rec.data.paperId]
            /\ \A i \in DOMAIN ids :
                  /\ out.links[i + 1].link = ids[i][2]
                  /\ IF SameUpToCase(ids[i][1], T_pubmedcentral)
                     THEN out.links[i + 1].type = T_pmc
                     ELSE IsLowerCaseOf(out.links[i + 1].type, ids[i][1])

\* C9's case: a paper was produced from a record with a remapped key and another
C9_Witness ==
    /\ pc = "done"
    /\ rec.kind = "paper"
    /\ rec.data.externalIds.t = "dict"
    /\ Len(rec.data.externalIds.items) = 2
    /\ rec.data.externalIds.items[1][1] = K_PubMedCentral
    /\ rec.data.externalIds.items[2][1] = K_DOI
    /\ out.links[2].type = T_pmc

\* C10: the page size sent on a request is at most the remaining budget,
\* limit minus the request's offset, and at most block_size (the fallback for
\* block_size 0 set aside).
C10_PageSizeWithinBudget ==
    (req # None /\ block_size >= 1) =>
        /\ req[1].limit <= limit - req[1].offset
        /\ req[1].limit <= block_size

=============================================================================
